---------------------------- MODULE Spec2Model ----------------------------
(***************************************************************************)
(* A model of the AutoSpec static-site builder (scripts/build_site.py) and *)
(* of the search-engine ping utility (scripts/ping_search.py).             *)
(*                                                                         *)
(* Text is modelled as a sequence of one-character strings, so that        *)
(* strip(), str.format(), the '?' test of load_affiliate and quote_plus    *)
(* are computed character by character.  Python's None is the one-element  *)
(* sequence None, whose element is not a character.  A file of the output  *)
(* directory is a pair <<directory, name>>; what the external templates    *)
(* (page.html, index.html) render is modelled as the record of the         *)
(* variables handed to them.                                               *)
(*                                                                         *)
(* The inputs are well-formed CSV files whose slugs hold no path           *)
(* separator, and the templates exist and render; the one input which can  *)
(* make main raise is config/affiliates.json (JSON which is no object, or  *)
(* a deeplink_base naming a field other than slug).  The output directory  *)
(* is empty before the first run.  build_site.py and ping_search.py are    *)
(* separate scripts: each specification runs one of them.                  *)
(***************************************************************************)
EXTENDS Integers, Sequences, FiniteSets, TLC

----------------------------------------------------------------------------
(* Bounds of the model.                                                    *)

MaxRows == 2

MaxRedirects == 2

MaxBlankRows == 3

MaxClock == 1

MaxUrlLen == 2

----------------------------------------------------------------------------
(* Text.                                                                   *)

None == <<"<None>">>

Whitespace == {" ", "\t", "\n", "\r"}

RECURSIVE LStrip(_)
LStrip(s) ==
    IF s # <<>> /\ Head(s) \in Whitespace THEN LStrip(Tail(s)) ELSE s

RECURSIVE RStrip(_)
RStrip(s) ==
    IF s # <<>> /\ s[Len(s)] \in Whitespace
    THEN RStrip(SubSeq(s, 1, Len(s) - 1))
    ELSE s

(* str.strip()                                                             *)
Strip(s) == RStrip(LStrip(s))

(* Python's `x or ""`: None and the empty string both give the empty string *)
OrEmpty(x) == IF x = None THEN <<>> ELSE x

(* (row.get(key) or "").strip()                                            *)
StripField(x) == Strip(OrEmpty(x))

(* `c in s`                                                                *)
Contains(s, c) == \E k \in 1..Len(s) : s[k] = c

(* The sequences over S of length at most n                                *)
SeqsUpTo(S, n) == UNION {[1..k -> S] : k \in 0..n}

(* The index of the first c in s, 0 when there is none                     *)
IndexOf(s, c) ==
    IF Contains(s, c) THEN CHOOSE k \in 1..Len(s) :
                              s[k] = c /\ \A j \in 1..(k - 1) : s[j] # c
    ELSE 0

----------------------------------------------------------------------------
(* String constants of the two scripts.                                    *)

DefaultBaseUrl == <<"h", "t", "t", "p", "s", ":", "/", "/", "r", "i", "n", "o", "s", "e", "n", "e", ".", "g", "i", "t", "h", "u", "b", ".", "i", "o">>

DefaultAdsLine == <<"g", "o", "o", "g", "l", "e", ".", "c", "o", "m", ",", " ", "p", "u", "b", "-", "4", "9", "1", "9", "3", "0", "1", "9", "7", "8", "3", "6", "4", "0", "7", "8", ",", " ", "D", "I", "R", "E", "C", "T", ",", " ", "f", "0", "8", "c", "4", "7", "f", "e", "c", "0", "9", "4", "2", "f", "a", "0">>

HtmlExt == <<".", "h", "t", "m", "l">>

IndexHtml == <<"i", "n", "d", "e", "x", ".", "h", "t", "m", "l">>

AdsTxt == <<"a", "d", "s", ".", "t", "x", "t">>

RobotsTxt == <<"r", "o", "b", "o", "t", "s", ".", "t", "x", "t">>

SitemapXml == <<"s", "i", "t", "e", "m", "a", "p", ".", "x", "m", "l">>

(* Fixed text of the description that is not ASCII: each piece is one      *)
(* element which is not a character of any input.                          *)
TitleSep == <<" ", "|", " ">>

DescSep == <<" ", "<em dash>", " ">>

DescTail == <<" ", "<gijun-euro jeongrihaesseo.>">>

(* The directories of the module-level paths                               *)
OUT == "dist"

DATA == <<"data", <<"i", "t", "e", "m", "s", ".", "c", "s", "v">>>>

REDIRECTS == <<"data", <<"r", "e", "d", "i", "r", "e", "c", "t", "s", ".", "c", "s", "v">>>>

CONF == <<"config", <<"a", "f", "f", "i", "l", "i", "a", "t", "e", "s", ".", "j", "s", "o", "n">>>>

PageTemplate == <<"templates", <<"p", "a", "g", "e", ".", "h", "t", "m", "l">>>>

IndexTemplate == <<"templates", <<"i", "n", "d", "e", "x", ".", "h", "t", "m", "l">>>>

(* OUT / name                                                              *)
OutPath(name) == <<OUT, name>>

----------------------------------------------------------------------------
(* Helpers of build_site.py.                                               *)

(* What a raised exception leaves in place of a value                      *)
Raised == <<"<raised>">>

(* norm_base_url                                                           *)
NormBaseUrl(url) ==
    IF url # <<>> /\ url[Len(url)] = "/" THEN SubSeq(url, 1, Len(url) - 1) ELSE url

(* os.environ.get("BASE_URL", default) through norm_base_url               *)
BaseUrlOf(env) == NormBaseUrl(IF env = None THEN DefaultBaseUrl ELSE env)

(* read_json_safe on the affiliate file: the parsed value.  An absent or   *)
(* unparsable file gives the empty dict; a file holding JSON that is not   *)
(* an object gives that value, which is no dict.                           *)
ReadJsonNoCatch(file) ==
    CASE file.kind = "absent"    -> [type |-> "dict", map |-> <<>>]
      [] file.kind = "malformed" -> [type |-> "raised", map |-> <<>>]
      [] file.kind = "object"    -> [type |-> "dict", map |-> file.map]
      [] OTHER                   -> [type |-> "other", map |-> <<>>]

ReadJsonSafe(file) ==
    CASE file.kind = "absent"    -> [type |-> "dict", map |-> <<>>]
      [] file.kind = "malformed" -> [type |-> "dict", map |-> <<>>]
      [] file.kind = "object"    -> [type |-> "dict", map |-> file.map]
      [] OTHER                   -> [type |-> "other", map |-> <<>>]

(* str.format(slug=slug): "{slug}" is replaced by the slug, "{{" and "}}"  *)
(* are the escaped braces, any other field or a lone brace raises.         *)
SlugField == <<"s", "l", "u", "g">>

RECURSIVE FormatFrom(_, _, _)
FormatFrom(t, slug, acc) ==
    IF t = <<>> THEN acc
    ELSE IF Head(t) = "{" THEN
        IF Len(t) >= 2 /\ t[2] = "{"
        THEN FormatFrom(SubSeq(t, 3, Len(t)), slug, Append(acc, "{"))
        ELSE LET close == IndexOf(t, "}")
             IN  IF close = 0 \/ SubSeq(t, 2, close - 1) # SlugField
                 THEN Raised
                 ELSE FormatFrom(SubSeq(t, close + 1, Len(t)), slug, acc \o slug)
    ELSE IF Head(t) = "}" THEN
        IF Len(t) >= 2 /\ t[2] = "}"
        THEN FormatFrom(SubSeq(t, 3, Len(t)), slug, Append(acc, "}"))
        ELSE Raised
    ELSE FormatFrom(Tail(t), slug, Append(acc, Head(t)))

Format(t, slug) == FormatFrom(t, slug, <<>>)

(* dict.get(key): the entry of a merchant, each key None when missing      *)
NoEntry == [deeplink_base |-> None, utm |-> None]

EntryOf(map, key) == IF key \in DOMAIN map THEN map[key] ELSE NoEntry

(* The separator between the link and its tracking fragment                *)
SepAlwaysQuestion(base) == <<"?">>

Sep(base) == IF Contains(base, "?") THEN <<"&">> ELSE <<"?">>

(* load_affiliate: the link, or Raised                                     *)
LoadAffiliate(file, merchant, slug) ==
    LET c == ReadJsonSafe(file)
    IN  IF c.type # "dict" THEN Raised
        ELSE LET m    == EntryOf(c.map, OrEmpty(merchant))
                 base == Format(OrEmpty(m.deeplink_base), slug)
                 utm  == OrEmpty(m.utm)
             IN  IF base = Raised THEN Raised
                 ELSE IF base # <<>> /\ utm # <<>>
                      THEN base \o Sep(base) \o utm
                      ELSE base

(* The slug of an item row, line 159                                       *)
SlugUnstripped(row) == OrEmpty(row.deeplink_slug)

SlugOf(row) == StripField(row.deeplink_slug)

(* Lines 163 and 164                                                       *)
TitleOf(row) ==
    Strip(StripField(row.keyword) \o TitleSep \o StripField(row.entity)
          \o <<" ">> \o StripField(row.attribute))

DescOf(row) ==
    StripField(row.entity) \o <<" ">> \o StripField(row.attribute)
        \o DescSep \o StripField(row.modifier) \o DescTail

(* f"{base_url}/{slug}.html"                                               *)
PageUrl(base, slug) == base \o <<"/">> \o slug \o HtmlExt

(* f"{slug}.html"                                                          *)
PageName(slug) == slug \o HtmlExt

(* What page.html is rendered from (h1, subtitle, the FAQ texts and the    *)
(* schema.org block repeat the title, the description, the URL, the row    *)
(* and the date)                                                           *)
RenderPage(row, base, slug, link, now) ==
    [kind |-> "page", title |-> TitleOf(row), description |-> DescOf(row),
     canonical |-> PageUrl(base, slug), item |-> row, affiliate_url |-> link,
     updated |-> now]

(* The entry of pages_meta, line 196                                       *)
MetaOf(row, slug) ==
    [title |-> TitleOf(row), desc |-> DescOf(row), path |-> PageName(slug)]

(* What index.html is rendered from                                        *)
RenderIndex(base, pages, now) ==
    [kind |-> "index", canonical |-> base \o <<"/">>, pages |-> pages, year |-> now]

(* write_soft_redirect: the stub                                           *)
RedirectStub(to_url) == [kind |-> "redirect", refresh |-> to_url, canonical |-> to_url]

(* write_ads_txt: the stripped line and one newline                        *)
AdsContent(env) ==
    [kind |-> "ads",
     text |-> Strip(IF OrEmpty(env) = <<>> THEN DefaultAdsLine ELSE env) \o <<"\n">>]

(* write_robots_txt                                                        *)
RobotsContent(base) ==
    [kind |-> "robots", allow |-> <<"/">>, sitemap |-> base \o <<"/">> \o SitemapXml]

(* add_url                                                                 *)
UrlEntry(loc, priority, lastmod) ==
    [loc |-> loc, lastmod |-> lastmod, changefreq |-> "weekly", priority |-> priority]

(* write_sitemap: the root entry, then one entry per element of pages_meta *)
SitemapContent(base, pages, ts) ==
    [kind |-> "sitemap", declaration |-> "UTF-8",
     urls |-> <<UrlEntry(base \o <<"/">>, "0.8", ts)>>
              \o [k \in 1..Len(pages) |->
                    UrlEntry(base \o <<"/">> \o pages[k].path, "0.6", ts)]]

(* The file is opened for appending                                        *)
WriteAppend(f, path, content) ==
    [p \in DOMAIN f \cup {path} |->
        IF p # path THEN f[p]
        ELSE IF path \in DOMAIN f
             THEN [kind |-> "appended", first |-> f[path], then |-> content]
             ELSE content]

(* The file is created, and left as it is when it exists                   *)
WriteKeepFirst(f, path, content) ==
    [p \in DOMAIN f \cup {path} |-> IF p \in DOMAIN f THEN f[p] ELSE content]

(* Path.write_text / write_bytes: the file is created or replaced          *)
WriteText(f, path, content) ==
    [p \in DOMAIN f \cup {path} |-> IF p = path THEN content ELSE f[p]]

----------------------------------------------------------------------------
(* State.                                                                  *)

VARIABLES
    items,        \* data/items.csv: [exists, rows]
    redirects,    \* data/redirects.csv: [exists, rows]
    conf,         \* config/affiliates.json: [kind, map]
    baseEnv,      \* the environment's BASE_URL, or None
    adsEnv,       \* the environment's ADS_TXT_LINE, or None
    clock,        \* what the wall clock reads
    pc,           \* where main is
    i,            \* the row the current loop is at
    base_url,     \* main's base_url
    pages_meta,   \* main's pages_meta
    fs,           \* the output directory: path -> content
    writes,       \* the writes of this run, in order
    reads,        \* the files this run has opened for reading
    run,          \* "first" or "second" run of main
    snap,         \* the output directory as the first run left it
    sitemapEnv,   \* the environment's SITEMAP_URL, or None
    ppc,          \* where ping_search is
    t,            \* the index in targets of the ping loop
    requests,     \* the URLs requested, in order
    printed       \* what ping_search has printed, in order

buildVars == <<items, redirects, conf, baseEnv, adsEnv, clock, pc, i, base_url,
               pages_meta, fs, writes, reads, run, snap>>

pingVars == <<sitemapEnv, ppc, t, requests, printed>>

vars == <<buildVars, pingVars>>

----------------------------------------------------------------------------
(* build_site.main, one action per step.                                   *)

(* One write of the run made twice over                                    *)
DoWriteTwice(name, content, step, row) ==
    /\ fs' = WriteText(fs, OutPath(name), content)
    /\ writes' = writes \o
          [k \in 1..2 |-> [path |-> OutPath(name), step |-> step,
                           row |-> row, content |-> content]]

(* One write of the run: the file is replaced and the write is logged      *)
DoWrite(name, content, step, row) ==
    /\ fs' = WriteText(fs, OutPath(name), content)
    /\ writes' = Append(writes, [path |-> OutPath(name), step |-> step,
                                 row |-> row, content |-> content])

(* Where main goes after item row k, and after redirect row k              *)
AfterItem(k) == IF k >= Len(items.rows) THEN "index" ELSE "pages"

AfterRedirect(k) == IF k >= Len(redirects.rows) THEN "ads" ELSE "redirects"

(* Lines 144-157: the environment is read and the items file is opened     *)
Start ==
    /\ pc = "start"
    /\ base_url' = BaseUrlOf(baseEnv)
    /\ pages_meta' = <<>>
    /\ i' = 1
    /\ IF items.exists
       THEN /\ reads' = reads \cup {DATA}
            /\ pc' = AfterItem(0)
       ELSE /\ reads' = reads
            /\ pc' = "index"
    /\ UNCHANGED <<items, redirects, conf, baseEnv, adsEnv, clock, fs, writes,
                   run, snap, pingVars>>

(* Lines 158-196: one row of the items file                                *)
PageRow ==
    /\ pc = "pages"
    /\ i <= Len(items.rows)
    /\ LET row  == items.rows[i]
           slug == SlugOf(row)
           link == LoadAffiliate(conf, row.merchant, slug)
       IN  IF slug = <<>>
           THEN /\ pc' = AfterItem(i)
                /\ i' = i + 1
                /\ UNCHANGED <<pages_meta, fs, writes, reads>>
           ELSE IF link = Raised
           THEN /\ pc' = "aborted"
                /\ reads' = reads \cup (IF conf.kind = "absent" THEN {} ELSE {CONF})
                /\ UNCHANGED <<i, pages_meta, fs, writes>>
           ELSE /\ DoWrite(PageName(slug), RenderPage(row, base_url, slug, link, clock),
                           "page", i)
                /\ pages_meta' = Append(pages_meta, MetaOf(row, slug))
                /\ reads' = reads \cup {PageTemplate}
                               \cup (IF conf.kind = "absent" THEN {} ELSE {CONF})
                /\ pc' = AfterItem(i)
                /\ i' = i + 1
    /\ UNCHANGED <<items, redirects, conf, baseEnv, adsEnv, clock, base_url,
                   run, snap, pingVars>>

(* Lines 200-217: the index page, then the redirects file is opened        *)
WriteIndex ==
    /\ pc = "index"
    /\ DoWrite(IndexHtml, RenderIndex(base_url, pages_meta, clock), "index", 0)
    /\ i' = 1
    /\ IF redirects.exists
       THEN /\ reads' = reads \cup {IndexTemplate, REDIRECTS}
            /\ pc' = AfterRedirect(0)
       ELSE /\ reads' = reads \cup {IndexTemplate}
            /\ pc' = "ads"
    /\ UNCHANGED <<items, redirects, conf, baseEnv, adsEnv, clock, base_url,
                   pages_meta, run, snap, pingVars>>

(* Lines 219-225: one row of the redirects file                            *)
RedirectRow ==
    /\ pc = "redirects"
    /\ i <= Len(redirects.rows)
    /\ LET row      == redirects.rows[i]
           old_slug == StripField(row.old_slug)
           new_slug == StripField(row.new_slug)
       IN  IF old_slug = <<>> \/ new_slug = <<>>
           THEN UNCHANGED <<fs, writes>>
           ELSE DoWrite(PageName(old_slug), RedirectStub(PageUrl(base_url, new_slug)),
                        "redirect", i)
    /\ pc' = AfterRedirect(i)
    /\ i' = i + 1
    /\ UNCHANGED <<items, redirects, conf, baseEnv, adsEnv, clock, base_url,
                   pages_meta, reads, run, snap, pingVars>>

(* Line 228                                                                *)
WriteAds ==
    /\ pc = "ads"
    /\ DoWrite(AdsTxt, AdsContent(adsEnv), "ads", 0)
    /\ pc' = "robots"
    /\ UNCHANGED <<items, redirects, conf, baseEnv, adsEnv, clock, i, base_url,
                   pages_meta, reads, run, snap, pingVars>>

(* Line 229                                                                *)
WriteRobots ==
    /\ pc = "robots"
    /\ DoWrite(RobotsTxt, RobotsContent(base_url), "robots", 0)
    /\ pc' = "sitemap"
    /\ UNCHANGED <<items, redirects, conf, baseEnv, adsEnv, clock, i, base_url,
                   pages_meta, reads, run, snap, pingVars>>

(* Lines 230-235: the sitemap, and main returns                            *)
WriteSitemap ==
    /\ pc = "sitemap"
    /\ DoWrite(SitemapXml, SitemapContent(base_url, pages_meta, clock), "sitemap", 0)
    /\ pc' = "done"
    /\ UNCHANGED <<items, redirects, conf, baseEnv, adsEnv, clock, i, base_url,
                   pages_meta, reads, run, snap, pingVars>>

(* The script is run again on the same inputs and the same output          *)
(* directory: a new process, whose memory is fresh                         *)
Rerun ==
    /\ pc = "done"
    /\ run = "first"
    /\ run' = "second"
    /\ snap' = fs
    /\ pc' = "start"
    /\ i' = 0
    /\ base_url' = <<>>
    /\ pages_meta' = <<>>
    /\ writes' = <<>>
    /\ reads' = {}
    /\ UNCHANGED <<items, redirects, conf, baseEnv, adsEnv, clock, fs, pingVars>>

(* Time passes                                                             *)
Tick ==
    /\ clock < MaxClock
    /\ clock' = clock + 1
    /\ UNCHANGED <<items, redirects, conf, baseEnv, adsEnv, pc, i, base_url,
                   pages_meta, fs, writes, reads, run, snap, pingVars>>

----------------------------------------------------------------------------
(* ping_search.py.                                                         *)

GooglePing == <<"h", "t", "t", "p", "s", ":", "/", "/", "w", "w", "w", ".", "g", "o", "o", "g", "l", "e", ".", "c", "o", "m", "/", "p", "i", "n", "g", "?", "s", "i", "t", "e", "m", "a", "p", "=">>

BingPing == <<"h", "t", "t", "p", "s", ":", "/", "/", "w", "w", "w", ".", "b", "i", "n", "g", ".", "c", "o", "m", "/", "p", "i", "n", "g", "?", "s", "i", "t", "e", "m", "a", "p", "=">>

DefaultSitemapUrl == <<"h", "t", "t", "p", "s", ":", "/", "/", "e", "x", "a", "m", "p", "l", "e", ".", "c", "o", "m", "/", "s", "i", "t", "e", "m", "a", "p", ".", "x", "m", "l">>

targets == <<GooglePing, BingPing>>

(* The characters quote_plus leaves as they are                            *)
AlwaysSafe ==
    {"a", "b", "c", "d", "e", "f", "g", "h", "i", "j", "k", "l", "m", "n",
     "o", "p", "q", "r", "s", "t", "u", "v", "w", "x", "y", "z", "A", "B",
     "C", "D", "E", "F", "G", "H", "I", "J", "K", "L", "M", "N", "O", "P",
     "Q", "R", "S", "T", "U", "V", "W", "X", "Y", "Z", "0", "1", "2", "3",
     "4", "5", "6", "7", "8", "9", "_", ".", "-", "~"}

(* quote_plus of one printable ASCII character other than the double      *)
(* quote, the backslash and the backquote                                  *)
QuoteChar(c) ==
    IF c \in AlwaysSafe THEN <<c>>
    ELSE IF c = " " THEN <<"+">>
    ELSE
        CASE c = "!" -> <<"%", "2", "1">>
          [] c = "#" -> <<"%", "2", "3">>
          [] c = "$" -> <<"%", "2", "4">>
          [] c = "%" -> <<"%", "2", "5">>
          [] c = "&" -> <<"%", "2", "6">>
          [] c = "'" -> <<"%", "2", "7">>
          [] c = "(" -> <<"%", "2", "8">>
          [] c = ")" -> <<"%", "2", "9">>
          [] c = "*" -> <<"%", "2", "A">>
          [] c = "+" -> <<"%", "2", "B">>
          [] c = "," -> <<"%", "2", "C">>
          [] c = "/" -> <<"%", "2", "F">>
          [] c = ":" -> <<"%", "3", "A">>
          [] c = ";" -> <<"%", "3", "B">>
          [] c = "<" -> <<"%", "3", "C">>
          [] c = "=" -> <<"%", "3", "D">>
          [] c = ">" -> <<"%", "3", "E">>
          [] c = "?" -> <<"%", "3", "F">>
          [] c = "@" -> <<"%", "4", "0">>
          [] c = "[" -> <<"%", "5", "B">>
          [] c = "]" -> <<"%", "5", "D">>
          [] c = "^" -> <<"%", "5", "E">>
          [] c = "{" -> <<"%", "7", "B">>
          [] c = "|" -> <<"%", "7", "C">>
          [] c = "}" -> <<"%", "7", "D">>
          [] OTHER -> <<"%", "<hex>">>

RECURSIVE QuotePlus(_)
QuotePlus(s) == IF s = <<>> THEN <<>> ELSE QuoteChar(Head(s)) \o QuotePlus(Tail(s))

(* os.environ.get("SITEMAP_URL", default)                                  *)
SitemapOf(env) == IF env = None THEN DefaultSitemapUrl ELSE env

(* Line 12                                                                 *)
PingUrl(k) == targets[k] \o QuotePlus(SitemapOf(sitemapEnv))

(* Lines 13-17 without the except clause: a failed request ends the script *)
PingRequestUncaught(ok) ==
    /\ requests' = Append(requests, PingUrl(t))
    /\ IF ok
       THEN /\ printed' = Append(printed, [kind |-> "Pinged", url |-> PingUrl(t)])
            /\ t' = t + 1
            /\ ppc' = ppc
       ELSE /\ ppc' = "crashed"
            /\ UNCHANGED <<printed, t>>

(* Lines 12-17: one request, which succeeds or raises; either is printed   *)
PingRequest(ok) ==
    /\ requests' = Append(requests, PingUrl(t))
    /\ printed' = Append(printed, [kind |-> IF ok THEN "Pinged" ELSE "Fail",
                                   url |-> PingUrl(t)])
    /\ t' = t + 1
    /\ ppc' = ppc

(* Line 11: the loop takes the next target                                 *)
Ping ==
    /\ ppc = "loop"
    /\ t <= Len(targets)
    /\ \E ok \in BOOLEAN : PingRequest(ok)
    /\ UNCHANGED <<sitemapEnv, buildVars>>

(* The loop is over and the script ends, with exit status 0                *)
PingExit ==
    /\ ppc = "loop"
    /\ t > Len(targets)
    /\ ppc' = "done"
    /\ UNCHANGED <<sitemapEnv, t, requests, printed, buildVars>>

PingNext ==
    \/ Ping
    \/ PingExit

----------------------------------------------------------------------------
(* Inputs.                                                                 *)

(* A file of rows: absent, or any sequence of at most n rows               *)
Files(rows, n) ==
    {[exists |-> FALSE, rows |-> <<>>]}
        \cup {[exists |-> TRUE, rows |-> r] : r \in SeqsUpTo(rows, n)}

Item(keyword, merchant, slug) ==
    [keyword |-> keyword, entity |-> <<"e">>, attribute |-> <<"t">>,
     modifier |-> <<"m">>, merchant |-> merchant, deeplink_slug |-> slug]

Redirect(old, new) == [old_slug |-> old, new_slug |-> new]

Index == <<"i", "n", "d", "e", "x">>

Object(map) == [kind |-> "object", map |-> map]

NoConf == [kind |-> "absent", map |-> <<>>]

Entry(base, utm) == [deeplink_base |-> base, utm |-> utm]

PlainBase == <<"d", "/", "{", "s", "l", "u", "g", "}">>

QueryBase == <<"d", "?", "q", "=", "{", "s", "l", "u", "g", "}">>

ShortUtm == <<"t", "=", "1">>

GoodConf == Object(<<"z">> :> Entry(PlainBase, ShortUtm))

(* Rows whose slug is missing, empty or blank, rows which share a slug     *)
(* and differ in their keyword, a padded slug, and the slug "index"        *)
ItemRows ==
    {Item(<<"k">>, <<"z">>, s) : s \in {None, <<>>, <<" ">>}}
        \cup {Item(k, <<"z">>, s) : k \in {<<"k">>, <<"j">>},
                                     s \in {<<"a", " ">>, Index}}

RedirectRows ==
    {Redirect(<<"a">>, <<"b">>), Redirect(<<" ", "a">>, <<"d">>),
     Redirect(Index, <<"b">>), Redirect(<<"c">>, <<" ">>),
     Redirect(None, <<"b">>)}

BuildStart ==
    /\ clock = 0
    /\ pc = "start"
    /\ i = 0
    /\ base_url = <<>>
    /\ pages_meta = <<>>
    /\ fs = <<>>
    /\ writes = <<>>
    /\ reads = {}
    /\ run = "first"
    /\ snap = <<>>

PingStart ==
    /\ ppc = "loop"
    /\ t = 1
    /\ requests = <<>>
    /\ printed = <<>>

(* Item and redirect files of every shape, under one configuration         *)
Init ==
    /\ items \in Files(ItemRows, MaxRows)
    /\ redirects \in Files(RedirectRows, MaxRedirects)
    /\ conf = GoodConf
    /\ baseEnv = <<"h", "/">>
    /\ adsEnv = None
    /\ BuildStart
    /\ sitemapEnv = None
    /\ PingStart

(* One run of build_site.main                                              *)
Next ==
    \/ Start
    \/ PageRow
    \/ WriteIndex
    \/ RedirectRow
    \/ WriteAds
    \/ WriteRobots
    \/ WriteSitemap

Spec == Init /\ [][Next]_vars

(* The build waits while ping_search runs                                  *)
BuildIdle ==
    /\ items = [exists |-> FALSE, rows |-> <<>>]
    /\ redirects = [exists |-> FALSE, rows |-> <<>>]
    /\ conf = NoConf
    /\ baseEnv = None
    /\ adsEnv = None
    /\ BuildStart

UrlChars == {"a", " ", "/", "&"}

(* ping_search.py under every SITEMAP_URL of at most MaxUrlLen characters  *)
PingInit ==
    /\ sitemapEnv \in {None} \cup SeqsUpTo(UrlChars, MaxUrlLen)
    /\ PingStart
    /\ BuildIdle

(* The script runs to its end: every request returns or raises within its  *)
(* timeout                                                                 *)
PingSpec == PingInit /\ [][PingNext]_vars /\ WF_vars(PingNext)

(* The optional inputs: each is absent or present; the affiliate file is   *)
(* absent, unparsable, JSON that is no object, an object whose template    *)
(* names another field, or a usable object                                 *)
BadFieldBase == <<"d", "/", "{", "i", "d", "}">>

OptionalConfs ==
    {NoConf, [kind |-> "malformed", map |-> <<>>], [kind |-> "nonobject", map |-> <<>>],
     Object(<<"z">> :> Entry(BadFieldBase, ShortUtm)), GoodConf}

OptionalItemRows == {Item(<<"k">>, <<"z">>, <<"a">>), Item(<<"j">>, None, Index)}

OptionalRedirectRows == {Redirect(<<"a">>, <<"b">>), Redirect(<<"c">>, <<"a">>)}

OptionalInit ==
    /\ items \in Files(OptionalItemRows, MaxRows)
    /\ redirects \in Files(OptionalRedirectRows, MaxRedirects)
    /\ conf \in OptionalConfs
    /\ baseEnv \in {None, <<"h">>, <<"h", "/">>}
    /\ adsEnv \in {None, <<" ", "x", " ">>}
    /\ BuildStart
    /\ sitemapEnv = None
    /\ PingStart

OptionalSpec == OptionalInit /\ [][Next]_vars

(* load_affiliate under every configuration of one merchant, the merchant  *)
(* key "", and the configuration of the docstring                          *)
ExampleBase == <<"h", "t", "t", "p", "s", ":", "/", "/", "a", "m", "a", "z", "o", "n", ".", "c", "o", "m", "/", "d", "p", "/", "{", "s", "l", "u", "g", "}">>

ExampleUtm == <<"t", "a", "g", "=", "r", "i", "n", "o", "-", "2", "0">>

ExampleSlug == <<"a", "b", "c", "1", "2", "3">>

ExampleLink == <<"h", "t", "t", "p", "s", ":", "/", "/", "a", "m", "a", "z", "o", "n", ".", "c", "o", "m", "/", "d", "p", "/", "a", "b", "c", "1", "2", "3", "?", "t", "a", "g", "=", "r", "i", "n", "o", "-", "2", "0">>

Amazon == <<"a", "m", "a", "z", "o", "n">>

ExampleConf == Object(Amazon :> Entry(ExampleBase, ExampleUtm))

AffiliateBases ==
    {None, <<>>, PlainBase, QueryBase, SlugField, <<"{", "s", "l", "u", "g", "}">>,
     <<"{", "{", "}", "}", "{", "s", "l", "u", "g", "}">>}

AffiliateUtms == {None, <<>>, ShortUtm}

AffiliateConfs ==
    {Object(<<"z">> :> Entry(b, u)) : b \in AffiliateBases, u \in AffiliateUtms}
        \cup {ExampleConf, Object(<<>> :> Entry(PlainBase, ShortUtm))}

AffiliateMerchants == {None, <<>>, <<"z">>, <<"y">>, Amazon}

AffiliateSlugs == {<<"a">>, <<"a", "?">>, ExampleSlug}

AffiliateInit ==
    /\ \E m \in AffiliateMerchants, s \in AffiliateSlugs :
          items = [exists |-> TRUE, rows |-> <<Item(<<"k">>, m, s)>>]
    /\ redirects = [exists |-> TRUE, rows |-> <<Redirect(<<"c">>, <<"a">>)>>]
    /\ conf \in AffiliateConfs
    /\ baseEnv = None
    /\ adsEnv = None
    /\ BuildStart
    /\ sitemapEnv = None
    /\ PingStart

AffiliateSpec == AffiliateInit /\ [][Next]_vars

(* Item files in which rows without a slug stand before, between and      *)
(* after rows with one                                                     *)
BlankRows ==
    {Item(<<"k">>, <<"z">>, s) : s \in {None, <<>>, <<" ">>, <<"a">>}}
        \cup {Item(<<"j">>, <<"z">>, <<"b">>)}

BlankInit ==
    /\ items \in Files(BlankRows, MaxBlankRows)
    /\ redirects \in Files({Redirect(<<"c">>, <<"a">>)}, 1)
    /\ conf = GoodConf
    /\ baseEnv = None
    /\ adsEnv = None
    /\ BuildStart
    /\ sitemapEnv = None
    /\ PingStart

BlankSpec == BlankInit /\ [][Next]_vars

(* Two runs in succession over one output directory, while time may pass   *)
RerunItemRows ==
    {Item(k, <<"z">>, <<"a">>) : k \in {<<"k">>, <<"j">>}} \cup {Item(<<"k">>, <<"z">>, Index)}

RerunRedirectRows == {Redirect(<<"a">>, <<"b">>), Redirect(<<"c">>, <<"a">>)}

RerunInit ==
    /\ items \in Files(RerunItemRows, MaxRows)
    /\ redirects \in Files(RerunRedirectRows, MaxRedirects)
    /\ conf = GoodConf
    /\ baseEnv = None
    /\ adsEnv = None
    /\ BuildStart
    /\ sitemapEnv = None
    /\ PingStart

RerunNext ==
    \/ Start
    \/ PageRow
    \/ WriteIndex
    \/ RedirectRow
    \/ WriteAds
    \/ WriteRobots
    \/ WriteSitemap
    \/ Rerun
    \/ Tick

RerunSpec == RerunInit /\ [][RerunNext]_vars

----------------------------------------------------------------------------
(* What the claims speak of.                                               *)

Rows == 1..Len(items.rows)

RedirectIdx == 1..Len(redirects.rows)

(* A slug that is missing, empty or only white space                       *)
Blank(x) == x = None \/ \A k \in 1..Len(x) : x[k] \in Whitespace

(* The slug of item row k after trimming                                   *)
TrimmedSlug(k) == Strip(OrEmpty(items.rows[k].deeplink_slug))

HasSlug(k) == ~Blank(items.rows[k].deeplink_slug)

OldSlug(j) == Strip(OrEmpty(redirects.rows[j].old_slug))

NewSlug(j) == Strip(OrEmpty(redirects.rows[j].new_slug))

(* A redirect row with both slugs                                          *)
ValidRedirect(j) ==
    ~Blank(redirects.rows[j].old_slug) /\ ~Blank(redirects.rows[j].new_slug)

(* {slug}.html in the output directory                                     *)
DocOf(slug) == <<OUT, slug \o HtmlExt>>

TheBase == BaseUrlOf(baseEnv)

UrlOf(slug) == TheBase \o <<"/">> \o slug \o HtmlExt

(* The file holds the page rendered from item row k                        *)
IsPageOf(p, k) ==
    /\ p \in DOMAIN fs
    /\ fs[p].kind = "page"
    /\ fs[p].item = items.rows[k]
    /\ fs[p].title = TitleOf(items.rows[k])
    /\ fs[p].description = DescOf(items.rows[k])

(* The file is a stub which sends to {base_url}/{new}.html                 *)
IsStubTo(p, new) ==
    /\ p \in DOMAIN fs
    /\ fs[p].kind = "redirect"
    /\ fs[p].refresh = UrlOf(new)
    /\ fs[p].canonical = UrlOf(new)

(* The last item row with the slug of row k, the last valid redirect row   *)
(* with the old_slug s                                                     *)
LastRowWith(s) == CHOOSE k \in Rows :
    /\ HasSlug(k) /\ TrimmedSlug(k) = s
    /\ \A m \in Rows : (HasSlug(m) /\ TrimmedSlug(m) = s) => m <= k

RedirectsFrom(s) == {j \in RedirectIdx : ValidRedirect(j) /\ OldSlug(j) = s}

LastRedirectFrom(s) == CHOOSE j \in RedirectsFrom(s) : \A m \in RedirectsFrom(s) : m <= j

(* The entries of sitemap.xml                                              *)
SitemapUrls == fs[<<OUT, SitemapXml>>].urls

(* How many times the run has written p                                    *)
WriteCount(p) == Cardinality({n \in 1..Len(writes) : writes[n].path = p})

----------------------------------------------------------------------------
(* C1, as stated: after a complete run, every item row with a non-empty    *)
(* slug has its document {slug}.html, which holds the page rendered from   *)
(* that row, whatever the item and redirect files.                         *)
C1_EveryRowHasItsPage ==
    pc = "done" =>
        \A k \in Rows : HasSlug(k) => IsPageOf(DocOf(TrimmedSlug(k)), k)

(* C1, amended: after a complete run, every item row with a non-empty slug *)
(* has a document {slug}.html, and it holds what was written there last:   *)
(* the stub of the last valid redirect row whose old_slug is that slug;    *)
(* failing that the index page when the slug is "index"; failing that the  *)
(* page rendered from the last item row with that slug.                    *)
C1_LastProducerWins ==
    pc = "done" =>
        \A k \in Rows : HasSlug(k) =>
            LET s == TrimmedSlug(k)
                p == DocOf(s)
            IN  /\ p \in DOMAIN fs
                /\ IF RedirectsFrom(s) # {}
                   THEN IsStubTo(p, NewSlug(LastRedirectFrom(s)))
                   ELSE IF s = Index
                   THEN fs[p] = RenderIndex(TheBase, pages_meta, clock)
                   ELSE IsPageOf(p, LastRowWith(s))

(* C1, its case: a complete run over two rows which share a slug and       *)
(* differ, the document holding the second, and a redirect file            *)
C1_Witness ==
    /\ pc = "done"
    /\ redirects.exists
    /\ Len(items.rows) = 2
    /\ HasSlug(1) /\ HasSlug(2)
    /\ TrimmedSlug(1) = TrimmedSlug(2)
    /\ items.rows[1] # items.rows[2]
    /\ IsPageOf(DocOf(TrimmedSlug(2)), 2)

(* C2, as stated: after a complete run sitemap.xml holds the root entry    *)
(* and exactly one entry per page document made from the item rows: as     *)
(* many further entries as there are distinct {slug}.html, no location     *)
(* twice, none of a redirect stub.                                         *)
C2_SitemapOneEntryPerPage ==
    pc = "done" =>
        /\ SitemapUrls[1].loc = TheBase \o <<"/">>
        /\ Len(SitemapUrls) - 1 = Cardinality({TrimmedSlug(k) : k \in {r \in Rows : HasSlug(r)}})
        /\ \A a, b \in 1..Len(SitemapUrls) : a # b => SitemapUrls[a].loc # SitemapUrls[b].loc
        /\ \A a \in 2..Len(SitemapUrls) :
              \E k \in Rows : HasSlug(k) /\ SitemapUrls[a].loc = UrlOf(TrimmedSlug(k))

(* C3, as stated: after a complete run, for every redirect row with both   *)
(* slugs, {old_slug}.html is a stub to {base_url}/{new_slug}.html and      *)
(* sitemap.xml has no entry for {base_url}/{old_slug}.html, whatever the   *)
(* items file.                                                             *)
C3_RedirectSourcesNotInSitemap ==
    pc = "done" =>
        \A j \in RedirectIdx : ValidRedirect(j) =>
            /\ IsStubTo(DocOf(OldSlug(j)), NewSlug(j))
            /\ \A a \in 1..Len(SitemapUrls) : SitemapUrls[a].loc # UrlOf(OldSlug(j))

(* The producers of an output path in one run: the item rows whose slug    *)
(* names it, the valid redirect rows whose old_slug names it, and the step *)
(* which writes index.html, ads.txt, robots.txt or sitemap.xml             *)
Producers(p) ==
    Cardinality({k \in Rows : HasSlug(k) /\ DocOf(TrimmedSlug(k)) = p})
        + Cardinality({j \in RedirectIdx : ValidRedirect(j) /\ DocOf(OldSlug(j)) = p})
        + (IF p \in {<<OUT, IndexHtml>>, <<OUT, AdsTxt>>, <<OUT, RobotsTxt>>,
                     <<OUT, SitemapXml>>} THEN 1 ELSE 0)

Written == {writes[n].path : n \in 1..Len(writes)}

(* C5, as stated: during one run every output path is written at most      *)
(* once and no output file is read back, whatever the inputs.              *)
C5_EachPathWrittenOnce ==
    /\ \A p \in Written : WriteCount(p) <= 1
    /\ reads \cap (Written \cup DOMAIN fs) = {}

(* C5, amended: ads.txt, robots.txt and sitemap.xml are written exactly    *)
(* once in a run, and every other output path once per producer: once for  *)
(* each item row whose trimmed slug names it, once for each valid redirect *)
(* row whose old_slug names it, and once more for index.html; so a path is *)
(* written at most once when no two producers name it.  No output file is  *)
(* read back.                                                              *)
C5_WrittenOncePerProducer ==
    /\ \A p \in Written : WriteCount(p) <= Producers(p)
    /\ reads \cap (Written \cup DOMAIN fs) = {}
    /\ pc = "done" =>
          /\ \A p \in Written \cup DOMAIN fs : WriteCount(p) = Producers(p)
          /\ \A n \in {AdsTxt, RobotsTxt, SitemapXml} : WriteCount(<<OUT, n>>) = 1
          /\ \A k \in Rows : HasSlug(k) => DocOf(TrimmedSlug(k)) \in Written
          /\ \A j \in RedirectIdx : ValidRedirect(j) => DocOf(OldSlug(j)) \in Written

(* C5, its case: a complete run in which an item row and a redirect row    *)
(* name one path, written twice, and another path is written once          *)
C5_Witness ==
    /\ pc = "done"
    /\ \E k \in Rows, j \in RedirectIdx :
          /\ HasSlug(k) /\ ValidRedirect(j)
          /\ TrimmedSlug(k) = OldSlug(j)
          /\ WriteCount(DocOf(OldSlug(j))) = 2
    /\ WriteCount(<<OUT, IndexHtml>>) = 1

(* C10: rows which share a slug raise no error, and once the loop over the *)
(* rows is over {slug}.html holds the page rendered from the last of them  *)
(* and nothing of an earlier one.                                          *)
C10_LastWriteWins ==
    /\ pc # "aborted"
    /\ pc = "index" =>
          \A k \in Rows : HasSlug(k) =>
              LET last == LastRowWith(TrimmedSlug(k))
                  slug == TrimmedSlug(k)
              IN  /\ IsPageOf(DocOf(slug), last)
                  /\ fs[DocOf(slug)] =
                        RenderPage(items.rows[last], TheBase, slug,
                                   fs[DocOf(slug)].affiliate_url, clock)

(* C10, its case: the loop is over two rows which share a slug and differ, *)
(* and the document is the second row's                                    *)
C10_Witness ==
    /\ pc = "index"
    /\ Len(items.rows) = 2
    /\ HasSlug(1) /\ HasSlug(2)
    /\ TrimmedSlug(1) = TrimmedSlug(2)
    /\ items.rows[1].keyword # items.rows[2].keyword
    /\ fs[DocOf(TrimmedSlug(1))].item = items.rows[2]
    /\ WriteCount(DocOf(TrimmedSlug(1))) = 2

(* The item rows the loop has been through                                 *)
Processed ==
    CASE pc = "start" -> 0
      [] pc \in {"pages", "aborted"} -> i - 1
      [] OTHER -> Len(items.rows)

(* The page list of the first n rows: one entry per row with a slug        *)
RECURSIVE MetaUpTo(_)
MetaUpTo(n) ==
    IF n = 0 THEN <<>>
    ELSE IF HasSlug(n)
         THEN Append(MetaUpTo(n - 1),
                     [title |-> TitleOf(items.rows[n]), desc |-> DescOf(items.rows[n]),
                      path |-> TrimmedSlug(n) \o HtmlExt])
         ELSE MetaUpTo(n - 1)

PageWrites == {n \in 1..Len(writes) : writes[n].step = "page"}

(* C4: an item row whose slug is missing, empty or white space writes no   *)
(* document, raises no error and adds nothing to the page list of the      *)
(* index nor to sitemap.xml; the rows around it are processed as if it     *)
(* were not there.                                                         *)
C4_BlankSlugRowsSkipped ==
    /\ pc # "aborted"
    /\ \A n \in PageWrites : HasSlug(writes[n].row)
    /\ pages_meta = MetaUpTo(Processed)
    /\ \A k \in 1..Processed : HasSlug(k) =>
          \E n \in PageWrites :
              /\ writes[n].row = k
              /\ writes[n].path = DocOf(TrimmedSlug(k))
              /\ writes[n].content.item = items.rows[k]
    /\ pc = "done" =>
          /\ \A n \in 1..Len(writes) :
                writes[n].step = "index" => writes[n].content.pages = MetaUpTo(Len(items.rows))
          /\ Len(SitemapUrls) = 1 + Cardinality({k \in Rows : HasSlug(k)})
          /\ \A a \in 2..Len(SitemapUrls) :
                \E k \in Rows : HasSlug(k) /\ SitemapUrls[a].loc = UrlOf(TrimmedSlug(k))
          /\ DOMAIN fs = {<<OUT, n>> : n \in {IndexHtml, AdsTxt, RobotsTxt, SitemapXml}}
                           \cup {DocOf(TrimmedSlug(k)) : k \in {r \in Rows : HasSlug(r)}}
                           \cup {DocOf(OldSlug(j)) : j \in {r \in RedirectIdx : ValidRedirect(r)}}

(* C4, its case: a complete run over a row with a slug, a row with a blank *)
(* one and a row with a slug, the page list holding the two                *)
C4_Witness ==
    /\ pc = "done"
    /\ Len(items.rows) = 3
    /\ HasSlug(1) /\ ~HasSlug(2) /\ HasSlug(3)
    /\ items.rows[2].deeplink_slug = <<" ">>
    /\ Len(pages_meta) = 2
    /\ Len(SitemapUrls) = 3

DefaultSitemapQuoted == <<"h", "t", "t", "p", "s", "%", "3", "A", "%", "2", "F", "%", "2", "F", "e", "x", "a", "m", "p", "l", "e", ".", "c", "o", "m", "%", "2", "F", "s", "i", "t", "e", "m", "a", "p", ".", "x", "m", "l">>

(* The requests ping_search is to make: Google's, then Bing's              *)
ExpectedRequests ==
    <<GooglePing \o QuotePlus(SitemapOf(sitemapEnv)),
      BingPing \o QuotePlus(SitemapOf(sitemapEnv))>>

(* C6: ping_search makes exactly one request per endpoint, Google's then   *)
(* Bing's, whatever the outcome of each: a failure is caught and printed,  *)
(* the next endpoint is still requested, nothing is requested twice, and   *)
(* the script always comes to its normal end.                              *)
C6_PingsEachEndpointOnce ==
    /\ [](/\ ppc # "crashed"
          /\ Len(requests) <= Len(ExpectedRequests)
          /\ requests = SubSeq(ExpectedRequests, 1, Len(requests))
          /\ Len(printed) = Len(requests)
          /\ \A k \in 1..Len(printed) :
                printed[k].url = requests[k] /\ printed[k].kind \in {"Pinged", "Fail"}
          /\ sitemapEnv = None /\ requests # <<>> =>
                requests[1] = GooglePing \o DefaultSitemapQuoted
          /\ ppc = "done" => requests = ExpectedRequests)
    /\ <>(ppc = "done")

(* C6, its case: the script has ended after Google's request failed and    *)
(* Bing's succeeded                                                        *)
C6_Witness ==
    /\ ppc = "done"
    /\ Len(requests) = 2
    /\ printed[1].kind = "Fail"
    /\ printed[2].kind = "Pinged"
    /\ sitemapEnv = <<"a", " ">>
    /\ requests[2] = BingPing \o <<"a", "+">>

FourFiles == {<<OUT, n>> : n \in {IndexHtml, AdsTxt, RobotsTxt, SitemapXml}}

StepsWritten == {writes[n].step : n \in 1..Len(writes)}

(* C7: whichever of the items file, the redirects file and the affiliate   *)
(* configuration are absent, the run does not fail and writes index.html,  *)
(* ads.txt, robots.txt and sitemap.xml; without the items file the page    *)
(* list is empty and the sitemap holds the root entry alone; without the   *)
(* redirects file no stub is written; with the affiliate configuration     *)
(* absent or unparsable every page has the empty affiliate link.           *)
C7_AbsentInputsAreEmpty ==
    /\ (~items.exists \/ conf.kind \in {"absent", "malformed"} \/ conf = GoodConf)
          => pc # "aborted"
    /\ pc = "done" =>
          /\ FourFiles \subseteq DOMAIN fs
          /\ {"index", "ads", "robots", "sitemap"} \subseteq StepsWritten
          /\ fs[<<OUT, AdsTxt>>].kind = "ads"
          /\ fs[<<OUT, RobotsTxt>>].kind = "robots"
          /\ fs[<<OUT, SitemapXml>>].kind = "sitemap"
    /\ (pc = "done" /\ ~items.exists) =>
          /\ pages_meta = <<>>
          /\ PageWrites = {}
          /\ \A n \in 1..Len(writes) :
                writes[n].step = "index" => writes[n].content.pages = <<>>
          /\ Len(SitemapUrls) = 1
          /\ SitemapUrls[1].loc = TheBase \o <<"/">>
    /\ ~redirects.exists =>
          /\ "redirect" \notin StepsWritten
          /\ \A p \in DOMAIN fs : fs[p].kind # "redirect"
    /\ conf.kind \in {"absent", "malformed"} =>
          /\ \A n \in PageWrites : writes[n].content.affiliate_url = <<>>
          /\ pc = "done" => \A k \in Rows : \E n \in PageWrites : writes[n].row = k

(* C7, its case: a complete run with an unparsable affiliate configuration *)
(* and no redirects file, which has written a page                         *)
C7_Witness ==
    /\ pc = "done"
    /\ conf.kind = "malformed"
    /\ ~redirects.exists
    /\ PageWrites # {}
    /\ FourFiles \subseteq DOMAIN fs

(* C7, its other case: a complete run with all three inputs absent         *)
C7_AllAbsent ==
    /\ pc = "done"
    /\ ~items.exists /\ ~redirects.exists /\ conf.kind = "absent"
    /\ DOMAIN fs = FourFiles

(* The link the claim gives for a merchant and a slug                      *)
ClaimedLink(merchant, slug) ==
    LET key  == OrEmpty(merchant)
        has  == key \in DOMAIN conf.map
        base == IF has THEN OrEmpty(conf.map[key].deeplink_base) ELSE <<>>
        utm  == IF has THEN OrEmpty(conf.map[key].utm) ELSE <<>>
        sub  == Format(base, slug)
    IN  IF ~has \/ base = <<>> THEN <<>>
        ELSE IF utm = <<>> THEN sub
        ELSE IF Contains(sub, "?") THEN sub \o <<"&">> \o utm
        ELSE sub \o <<"?">> \o utm

(* C8: load_affiliate gives the empty string for a merchant which is no    *)
(* key or whose entry has no deeplink_base, the base with the slug put in  *)
(* when there is no utm, and otherwise that followed by '&' and the utm if *)
(* it holds a '?', by '?' and the utm if not; the docstring's example      *)
(* gives https://amazon.com/dp/abc123?tag=rino-20.                         *)
C8_AffiliateLink ==
    /\ pc # "aborted"
    /\ \A n \in PageWrites :
          LET row == items.rows[writes[n].row]
          IN  /\ writes[n].content.affiliate_url
                    = ClaimedLink(row.merchant, TrimmedSlug(writes[n].row))
              /\ (conf = ExampleConf /\ row.merchant = Amazon
                    /\ row.deeplink_slug = ExampleSlug)
                   => writes[n].content.affiliate_url = ExampleLink
    /\ pc = "done" => PageWrites # {}

(* C8, its case: the page of the docstring's example, and its link         *)
C8_Witness ==
    /\ conf = ExampleConf
    /\ \E n \in PageWrites :
          /\ items.rows[writes[n].row].merchant = Amazon
          /\ TrimmedSlug(writes[n].row) = ExampleSlug
          /\ writes[n].content.affiliate_url = ExampleLink

(* C8, its other case: a base which holds a '?' is joined to its utm by '&' *)
C8_AmpersandCase ==
    \E n \in PageWrites :
        writes[n].content.affiliate_url
            = <<"d", "?", "q", "=", "a", "&", "t", "=", "1">>

(* C9: a second run on the same inputs, the clock standing still, leaves   *)
(* the output directory as the first run left it: the same files with the  *)
(* same contents.                                                          *)
C9_RerunChangesNothing ==
    (run = "second" /\ pc = "done" /\ clock = 0) =>
        /\ DOMAIN fs = DOMAIN snap
        /\ fs = snap

(* C9, its case: the second run is complete, the clock stood still, and    *)
(* the directory holds a page, a stub and the four fixed files             *)
C9_Witness ==
    /\ run = "second"
    /\ pc = "done"
    /\ clock = 0
    /\ Len(items.rows) = 2
    /\ \E j \in RedirectIdx : ValidRedirect(j)
    /\ Cardinality(DOMAIN fs) >= 6
    /\ fs = snap

(* C9, the clock matters: a second run after the clock has moved leaves    *)
(* other contents                                                          *)
C9_ClockMoved ==
    /\ run = "second"
    /\ pc = "done"
    /\ clock > 0
    /\ fs # snap

============================================================================
